---------------------------- MODULE Spec2Model ----------------------------
(***************************************************************************)
(* Host-capability request schema of src/host_capabilities/mod.rs: the two *)
(* versioned Sigstore request enums, the canonical CallbackRequestType,    *)
(* the two converters between them and the serde representation the       *)
(* derive attributes give each enum.  One host call is the state machine:  *)
(* a guest builds and serializes a versioned request (or an untrusted      *)
(* payload arrives), the host decodes it, converts it and hands the        *)
(* canonical value over.                                                   *)
(***************************************************************************)
EXTENDS Integers, Sequences, FiniteSets, TLC

VARIABLES pc, version, request, payload, decoded, canonical

vars == <<pc, version, request, payload, decoded, canonical>>

(***************************************************************************)
(* Bounds of the model.                                                    *)
(***************************************************************************)
\* longest pub_keys / keyless / keyless_prefix sequence a guest builds
MaxLen == 2
\* number of distinct annotation keys a guest may use
MaxKeys == 2

(***************************************************************************)
(* Rust values.  Option<T> is None or Some(v); a HashMap<String, String>   *)
(* is HashMap(f) for a function f from a finite set of strings to strings; *)
(* a Vec is Vec(s) for a sequence s; a String is a string.  An Option, a   *)
(* HashMap, a Vec, a struct variant and a descriptor are records over      *)
(* different field names, so a value of one of these types is a value of   *)
(* no other, and none of them is a String.                                 *)
(***************************************************************************)
None == [none |-> TRUE]
Some(v) == [some |-> v]
IsNone(o) == o = None
IsSome(o) == DOMAIN o = {"some"}

HashMap(f) == [map |-> f]
Vec(s) == [vec |-> s]
EmptyMap == HashMap([k \in {} |-> ""])

\* the slot of a variable that holds no value yet
Nothing == [nothing |-> TRUE]

\* s[1..n] of a pool of names, as a set
Take(s, n) == {s[i] : i \in 1..(IF n < Len(s) THEN n ELSE Len(s))}

\* all sequences over S of length at most n, and the Vecs of them
SeqsUpTo(S, n) == UNION {[1..k -> S] : k \in 0..n}
VecsUpTo(S, n) == {Vec(s) : s \in SeqsUpTo(S, n)}

ImageRefs == {"reg/busybox:1.0.0", "reg/app:latest"}
PemKeys == {"PEM1", "PEM2"}
Owners == {"", "octocat"}
Repos == {"", "example-repo"}
Hosts == {"example.org"}
AnnotationKeys == Take(<<"env", "team", "tier", "zone">>, MaxKeys)
AnnotationValues == {"prod", "dev"}

\* HashMap<String, String> values a guest builds
AnnotationMaps ==
    {HashMap(f) :
        f \in UNION {[K -> AnnotationValues] : K \in SUBSET AnnotationKeys}}
\* Option<HashMap<String, String>>
OptAnnotations == {None} \cup {Some(m) : m \in AnnotationMaps}
\* Option<String>
OptRepos == {None} \cup {Some(r) : r \in Repos}

\* verification descriptors: opaque to this module, two distinct types
KeylessInfo == {[keyless_info |-> i] : i \in 1..2}
KeylessPrefixInfo == {[keyless_prefix_info |-> i] : i \in 1..2}

(***************************************************************************)
(* Variant names and field sets of the three enums, as declared.           *)
(***************************************************************************)
\* enum SigstoreVerificationInputV1, as declared
V1Fields ==
    [SigstorePubKeyVerify |->
         [image |-> "String",
          pub_keys |-> "Vec<String>",
          annotations |-> "Option<HashMap<String, String>>"],
     SigstoreKeylessVerify |->
         [image |-> "String",
          keyless |-> "Vec<KeylessInfo>",
          annotations |-> "Option<HashMap<String, String>>"]]

\* a V2 that reshaped a released variant: pub_keys became optional
V2FieldsAltered ==
    [SigstorePubKeyVerify |->
         [image |-> "String",
          pub_keys |-> "Option<Vec<String>>",
          annotations |-> "Option<HashMap<String, String>>"],
     SigstoreKeylessVerify |->
         [image |-> "String",
          keyless |-> "Vec<KeylessInfo>",
          annotations |-> "Option<HashMap<String, String>>"],
     SigstoreKeylessPrefixVerify |->
         [image |-> "String",
          keyless_prefix |-> "Vec<KeylessPrefixInfo>",
          annotations |-> "Option<HashMap<String, String>>"],
     SigstoreGithubActionsVerify |->
         [image |-> "String",
          owner |-> "String",
          repo |-> "Option<String>",
          annotations |-> "Option<HashMap<String, String>>"]]

\* enum SigstoreVerificationInputV2, as declared
V2Fields ==
    [SigstorePubKeyVerify |->
         [image |-> "String",
          pub_keys |-> "Vec<String>",
          annotations |-> "Option<HashMap<String, String>>"],
     SigstoreKeylessVerify |->
         [image |-> "String",
          keyless |-> "Vec<KeylessInfo>",
          annotations |-> "Option<HashMap<String, String>>"],
     SigstoreKeylessPrefixVerify |->
         [image |-> "String",
          keyless_prefix |-> "Vec<KeylessPrefixInfo>",
          annotations |-> "Option<HashMap<String, String>>"],
     SigstoreGithubActionsVerify |->
         [image |-> "String",
          owner |-> "String",
          repo |-> "Option<String>",
          annotations |-> "Option<HashMap<String, String>>"]]

\* enum CallbackRequestType, as declared
CanonicalFields ==
    [OciManifestDigest |->
         [image |-> "String"],
     SigstorePubKeyVerify |->
         [image |-> "String",
          pub_keys |-> "Vec<String>",
          annotations |-> "Option<HashMap<String, String>>"],
     SigstoreKeylessVerify |->
         [image |-> "String",
          keyless |-> "Vec<KeylessInfo>",
          annotations |-> "Option<HashMap<String, String>>"],
     SigstoreKeylessPrefixVerify |->
         [image |-> "String",
          keyless_prefix |-> "Vec<KeylessPrefixInfo>",
          annotations |-> "Option<HashMap<String, String>>"],
     SigstoreGithubActionsVerify |->
         [image |-> "String",
          owner |-> "String",
          repo |-> "Option<String>",
          annotations |-> "Option<HashMap<String, String>>"],
     DNSLookupHost |->
         [host |-> "String"]]

V1Variants == DOMAIN V1Fields
V2Variants == DOMAIN V2Fields
CanonicalVariants == DOMAIN CanonicalFields

\* the fields of a value: everything but the enum and variant names
Fields(v) == [f \in DOMAIN v \ {"enum", "variant"} |-> v[f]]

(***************************************************************************)
(* Constructors of the struct variants, one per shape; `e` names the enum. *)
(***************************************************************************)
PubKeyVerify(e, image, pub_keys, annotations) ==
    [enum |-> e, variant |-> "SigstorePubKeyVerify",
     image |-> image, pub_keys |-> pub_keys, annotations |-> annotations]
KeylessVerify(e, image, keyless, annotations) ==
    [enum |-> e, variant |-> "SigstoreKeylessVerify",
     image |-> image, keyless |-> keyless, annotations |-> annotations]
KeylessPrefixVerify(e, image, keyless_prefix, annotations) ==
    [enum |-> e, variant |-> "SigstoreKeylessPrefixVerify",
     image |-> image, keyless_prefix |-> keyless_prefix,
     annotations |-> annotations]
GithubActionsVerify(e, image, owner, repo, annotations) ==
    [enum |-> e, variant |-> "SigstoreGithubActionsVerify",
     image |-> image, owner |-> owner, repo |-> repo,
     annotations |-> annotations]
OciManifestDigest(image) ==
    [enum |-> "CallbackRequestType", variant |-> "OciManifestDigest",
     image |-> image]
DNSLookupHost(host) ==
    [enum |-> "CallbackRequestType", variant |-> "DNSLookupHost",
     host |-> host]

\* the values of the struct variants of enum e that the guests build
PubKeyValues(e) ==
    {PubKeyVerify(e, i, p, a) :
        i \in ImageRefs, p \in VecsUpTo(PemKeys, MaxLen), a \in OptAnnotations}
KeylessValues(e) ==
    {KeylessVerify(e, i, k, a) :
        i \in ImageRefs, k \in VecsUpTo(KeylessInfo, MaxLen),
        a \in OptAnnotations}
KeylessPrefixValues(e) ==
    {KeylessPrefixVerify(e, i, k, a) :
        i \in ImageRefs, k \in VecsUpTo(KeylessPrefixInfo, MaxLen),
        a \in OptAnnotations}
GithubActionsValues(e) ==
    {GithubActionsVerify(e, i, o, r, a) :
        i \in ImageRefs, o \in Owners, r \in OptRepos, a \in OptAnnotations}

SigstoreVerificationInputV1 ==
    PubKeyValues("SigstoreVerificationInputV1")
        \cup KeylessValues("SigstoreVerificationInputV1")

SigstoreVerificationInputV2 ==
    PubKeyValues("SigstoreVerificationInputV2")
        \cup KeylessValues("SigstoreVerificationInputV2")
        \cup KeylessPrefixValues("SigstoreVerificationInputV2")
        \cup GithubActionsValues("SigstoreVerificationInputV2")

\* the canonical values built directly, without a versioned request
CanonicalOnly ==
    {OciManifestDigest(i) : i \in ImageRefs}
        \cup {DNSLookupHost(h) : h \in Hosts}

CallbackRequestType ==
    PubKeyValues("CallbackRequestType")
        \cup KeylessValues("CallbackRequestType")
        \cup KeylessPrefixValues("CallbackRequestType")
        \cup GithubActionsValues("CallbackRequestType")
        \cup CanonicalOnly

(***************************************************************************)
(* The converters.                                                         *)
(***************************************************************************)
\* the arms a faulty converter leaves as they are
Relabel(val) == [val EXCEPT !.enum = "CallbackRequestType"]

\* faulty converters of V1: one keeps only the first public key, one gives
\* no result for an empty pub_keys, one turns an empty annotation set into
\* an absent one
intoFirstKeyOnly(self) ==
    IF self.variant = "SigstorePubKeyVerify"
    THEN PubKeyVerify("CallbackRequestType", self.image,
                      IF self.pub_keys = Vec(<<>>) THEN Vec(<<>>)
                      ELSE Vec(<<self.pub_keys.vec[1]>>),
                      self.annotations)
    ELSE Relabel(self)
intoRejectsEmpty(self) ==
    IF self.variant = "SigstorePubKeyVerify" /\ self.pub_keys = Vec(<<>>)
    THEN Nothing
    ELSE Relabel(self)
intoDropsEmptyAnnotations(self) ==
    IF self.annotations = Some(EmptyMap)
    THEN [Relabel(self) EXCEPT !.annotations = None]
    ELSE Relabel(self)

\* impl Into<CallbackRequestType> for SigstoreVerificationInputV1
into(self) ==
    CASE self.variant = "SigstorePubKeyVerify" ->
            PubKeyVerify("CallbackRequestType",
                         self.image, self.pub_keys, self.annotations)
      [] self.variant = "SigstoreKeylessVerify" ->
            KeylessVerify("CallbackRequestType",
                          self.image, self.keyless, self.annotations)

\* faulty converters of V2: one forgets repo, one reverses pub_keys, one
\* sends the GitHub Actions request to the DNS variant, one to the digest
\* variant
fromDropsRepo(val) ==
    IF val.variant = "SigstoreGithubActionsVerify"
    THEN GithubActionsVerify("CallbackRequestType",
                             val.image, val.owner, None, val.annotations)
    ELSE Relabel(val)
fromReversesPubKeys(val) ==
    IF val.variant = "SigstorePubKeyVerify"
    THEN PubKeyVerify("CallbackRequestType", val.image,
                      Vec([i \in DOMAIN val.pub_keys.vec |->
                              val.pub_keys.vec[Len(val.pub_keys.vec) + 1 - i]]),
                      val.annotations)
    ELSE Relabel(val)
fromGithubAsDns(val) ==
    IF val.variant = "SigstoreGithubActionsVerify"
    THEN DNSLookupHost(val.owner)
    ELSE Relabel(val)
fromGithubAsDigest(val) ==
    IF val.variant = "SigstoreGithubActionsVerify"
    THEN OciManifestDigest(val.image)
    ELSE Relabel(val)

\* impl From<SigstoreVerificationInputV2> for CallbackRequestType
from(val) ==
    CASE val.variant = "SigstorePubKeyVerify" ->
            PubKeyVerify("CallbackRequestType",
                         val.image, val.pub_keys, val.annotations)
      [] val.variant = "SigstoreKeylessVerify" ->
            KeylessVerify("CallbackRequestType",
                          val.image, val.keyless, val.annotations)
      [] val.variant = "SigstoreKeylessPrefixVerify" ->
            KeylessPrefixVerify("CallbackRequestType",
                                val.image, val.keyless_prefix, val.annotations)
      [] val.variant = "SigstoreGithubActionsVerify" ->
            GithubActionsVerify("CallbackRequestType",
                                val.image, val.owner, val.repo, val.annotations)

(***************************************************************************)
(* The wire form: JSON values as serde_json reads them from the payload    *)
(* text.  An object is the sequence of its <<key, value>> members in       *)
(* document order (a key may occur twice).                                 *)
(***************************************************************************)
JNull == [null |-> TRUE]
JNum(n) == [num |-> n]
JStr(s) == [str |-> s]
JArr(s) == [arr |-> s]
JObj(members) == [obj |-> members]
\* the encoding of a verification descriptor, opaque to this module
JDescriptor(d) == [descriptor |-> d]

IsJStr(j) == DOMAIN j = {"str"}
IsJArr(j) == DOMAIN j = {"arr"}
IsJObj(j) == DOMAIN j = {"obj"}
IsJDescriptor(j, S) == DOMAIN j = {"descriptor"} /\ j.descriptor \in S

\* the keys of the members of an object, and the value of the last member
\* with key k
Keys(members) == {members[i][1] : i \in DOMAIN members}
LastOf(members, k) ==
    LET at == {i \in DOMAIN members : members[i][1] = k}
    IN  members[CHOOSE i \in at : \A n \in at : n <= i][2]

\* Result<T, E> of a decode; e is the kind of the serde error
Ok(v) == [ok |-> v]
Err(e) == [err |-> e]
IsOk(r) == DOMAIN r = {"ok"}
IsErr(r) == DOMAIN r = {"err"}

\* the decode boundary of the host: a decoder's error is surfaced as a
\* MalformedRequest that carries the description of the mismatch, a decoded
\* value is passed on
MalformedRequest(description) ==
    [error |-> "MalformedRequest", description |-> description]
IsMalformedRequest(r) ==
    DOMAIN r = {"error", "description"} /\ r.error = "MalformedRequest"
DecodeBoundary(r) == IF IsErr(r) THEN MalformedRequest(r.err) ELSE r

\* the order in which a variant declares its fields
FieldOrder(variant) ==
    CASE variant = "OciManifestDigest" -> <<"image">>
      [] variant = "SigstorePubKeyVerify" ->
            <<"image", "pub_keys", "annotations">>
      [] variant = "SigstoreKeylessVerify" ->
            <<"image", "keyless", "annotations">>
      [] variant = "SigstoreKeylessPrefixVerify" ->
            <<"image", "keyless_prefix", "annotations">>
      [] variant = "SigstoreGithubActionsVerify" ->
            <<"image", "owner", "repo", "annotations">>
      [] variant = "DNSLookupHost" -> <<"host">>

FieldsOf(e) ==
    CASE e = "SigstoreVerificationInputV1" -> V1Fields
      [] e = "SigstoreVerificationInputV2" -> V2Fields
      [] e = "CallbackRequestType" -> CanonicalFields

(***************************************************************************)
(* derive(Serialize): one field, then the struct of a variant, then the    *)
(* enum under its tagging attribute.  A HashMap is written in the order    *)
(* its iterator gives, which is any order, so a value has a set of         *)
(* encodings.                                                              *)
(***************************************************************************)
\* every order in which the keys K may come
Orders(K) ==
    {s \in [1..Cardinality(K) -> K] :
        \A i, k \in 1..Cardinality(K) : s[i] = s[k] => i = k}

SerMap(m) ==
    {JObj([i \in DOMAIN s |-> <<s[i], JStr(m.map[s[i]])>>]) :
        s \in Orders(DOMAIN m.map)}

SerField(ty, x) ==
    CASE ty = "String" -> {JStr(x)}
      [] ty = "Vec<String>" -> {JArr([i \in DOMAIN x.vec |-> JStr(x.vec[i])])}
      [] ty \in {"Vec<KeylessInfo>", "Vec<KeylessPrefixInfo>"} ->
            {JArr([i \in DOMAIN x.vec |-> JDescriptor(x.vec[i])])}
      [] ty = "Option<String>" ->
            IF IsNone(x) THEN {JNull} ELSE {JStr(x.some)}
      [] ty = "Option<HashMap<String, String>>" ->
            IF IsNone(x) THEN {JNull} ELSE SerMap(x.some)

\* the members of the first n fields of v, in declaration order
RECURSIVE SerMembers(_, _)
SerMembers(v, n) ==
    IF n = 0 THEN {<<>>}
    ELSE LET f == FieldOrder(v.variant)[n]
         IN  {Append(s, <<f, j>>) :
                 s \in SerMembers(v, n - 1),
                 j \in SerField(FieldsOf(v.enum)[v.variant][f], v[f])}

SerStruct(v) == SerMembers(v, Len(FieldOrder(v.variant)))

\* no serde attribute: { "<variant>": { fields } }
ExternallyTagged(v) ==
    {JObj(<< <<v.variant, JObj(s)>> >>) : s \in SerStruct(v)}
\* serde(tag = "type"): { "type": "<variant>", fields }
InternallyTagged(v) ==
    {JObj(<< <<"type", JStr(v.variant)>> >> \o s) : s \in SerStruct(v)}

SerializeV1(v) == ExternallyTagged(v)

\* a V2 that lost its serde(tag = "type") attribute
SerializeV2Untagged(v) == ExternallyTagged(v)

SerializeV2(v) == InternallyTagged(v)

SerializeCallbackRequestType(v) == ExternallyTagged(v)

(***************************************************************************)
(* derive(Deserialize), read by serde_json from the payload text           *)
(* (from_slice / from_str).                                                *)
(***************************************************************************)
DeValue(ty, j) ==
    CASE ty = "String" ->
            IF IsJStr(j) THEN Ok(j.str) ELSE Err("invalid type")
      [] ty = "Vec<String>" ->
            IF IsJArr(j) /\ \A i \in DOMAIN j.arr : IsJStr(j.arr[i])
            THEN Ok(Vec([i \in DOMAIN j.arr |-> j.arr[i].str]))
            ELSE Err("invalid type")
      [] ty = "Vec<KeylessInfo>" ->
            IF IsJArr(j)
               /\ \A i \in DOMAIN j.arr : IsJDescriptor(j.arr[i], KeylessInfo)
            THEN Ok(Vec([i \in DOMAIN j.arr |-> j.arr[i].descriptor]))
            ELSE Err("invalid type")
      [] ty = "Vec<KeylessPrefixInfo>" ->
            IF IsJArr(j)
               /\ \A i \in DOMAIN j.arr :
                     IsJDescriptor(j.arr[i], KeylessPrefixInfo)
            THEN Ok(Vec([i \in DOMAIN j.arr |-> j.arr[i].descriptor]))
            ELSE Err("invalid type")
      [] ty = "Option<String>" ->
            IF j = JNull THEN Ok(None)
            ELSE IF IsJStr(j) THEN Ok(Some(j.str))
            ELSE Err("invalid type")
      [] ty = "Option<HashMap<String, String>>" ->
            IF j = JNull THEN Ok(None)
            ELSE IF IsJObj(j) /\ \A i \in DOMAIN j.obj : IsJStr(j.obj[i][2])
            THEN Ok(Some(HashMap([k \in Keys(j.obj) |-> LastOf(j.obj, k).str])))
            ELSE Err("invalid type")
      [] OTHER -> Err("invalid type")

IsOptionType(ty) ==
    ty \in {"Option<String>", "Option<HashMap<String, String>>"}

\* a reader that fills a missing field with its type's default
MissingFieldDefaulting(ty) ==
    IF IsOptionType(ty) THEN Ok(None)
    ELSE IF ty = "String" THEN Ok("")
    ELSE Ok(<<>>)

\* a field the map did not hold: an Option is None, any other is an error
MissingField(ty) ==
    IF IsOptionType(ty) THEN Ok(None) ELSE Err("missing field")

\* the loop of visit_map over the members from the i-th on: an unknown key
\* is skipped, a key met twice is an error, a value of the wrong type is an
\* error as soon as it is met; got holds the fields read so far
RECURSIVE ReadMembers(_, _, _, _)
ReadMembers(schema, members, i, got) ==
    IF i > Len(members) THEN Ok(got)
    ELSE LET k == members[i][1]
         IN  IF k \notin DOMAIN schema
             THEN ReadMembers(schema, members, i + 1, got)
             ELSE IF k \in DOMAIN got THEN Err("duplicate field")
             ELSE LET r == DeValue(schema[k], members[i][2])
                  IN  IF IsErr(r) THEN r
                      ELSE ReadMembers(schema, members, i + 1,
                              [x \in DOMAIN got \cup {k} |->
                                  IF x = k THEN r.ok ELSE got[x]])

Build(e, variant, r) ==
    [f \in {"enum", "variant"} \cup DOMAIN r |->
        IF f = "enum" THEN e
        ELSE IF f = "variant" THEN variant
        ELSE r[f].ok]

\* visit_map of a struct variant: the members in document order, then the
\* fields the map did not hold
VisitMap(e, variant, members) ==
    LET schema == FieldsOf(e)[variant]
        read == ReadMembers(schema, members, 1, <<>>)
        r == [f \in DOMAIN schema |->
                IF f \in DOMAIN read.ok THEN Ok(read.ok[f])
                ELSE MissingField(schema[f])]
    IN  IF IsErr(read) THEN read
        ELSE IF \E f \in DOMAIN schema : IsErr(r[f]) THEN Err("missing field")
        ELSE Ok(Build(e, variant, r))

\* visit_seq of a struct variant: the fields by position, each one needed;
\* it does not look past its last field
VisitSeq(e, variant, s) ==
    LET schema == FieldsOf(e)[variant]
        order == FieldOrder(variant)
        at(i) == IF i <= Len(s) THEN DeValue(schema[order[i]], s[i])
                 ELSE Err("invalid length")
        bad == {i \in DOMAIN order : IsErr(at(i))}
    IN  IF bad # {} THEN at(CHOOSE i \in bad : \A k \in bad : i <= k)
        ELSE Ok(Build(e, variant,
                      [f \in DOMAIN schema |->
                          at(CHOOSE i \in DOMAIN order : order[i] = f)]))

\* struct_variant of serde_json: a map or a sequence, and the sequence must
\* end after the last field
DeStructVariant(e, variant, content) ==
    IF IsJObj(content) THEN VisitMap(e, variant, content.obj)
    ELSE IF IsJArr(content)
    THEN LET r == VisitSeq(e, variant, content.arr)
         IN  IF IsOk(r) /\ Len(content.arr) > Len(FieldOrder(variant))
             THEN Err("trailing characters")
             ELSE r
    ELSE Err("invalid type")

\* externally tagged: a string names a unit variant, which none is; an
\* object gives the variant in its first key, the struct in that key's
\* value, and must end there
DeserializeV1(j) ==
    IF IsJStr(j)
    THEN IF j.str \in V1Variants THEN Err("invalid type")
         ELSE Err("unknown variant")
    ELSE IF ~IsJObj(j) THEN Err("expected value")
    ELSE IF Len(j.obj) = 0 THEN Err("expected value")
    ELSE IF j.obj[1][1] \notin V1Variants THEN Err("unknown variant")
    ELSE LET r == DeStructVariant("SigstoreVerificationInputV1",
                                  j.obj[1][1], j.obj[1][2])
         IN  IF IsOk(r) /\ Len(j.obj) > 1 THEN Err("expected value") ELSE r

\* internally tagged: the `type` member names the variant, wherever it
\* stands, and the other members are the fields; in a sequence the first
\* element names the variant
DeserializeV2(j) ==
    IF IsJObj(j)
    THEN LET tags == {i \in DOMAIN j.obj : j.obj[i][1] = "type"}
             first == CHOOSE i \in tags : \A k \in tags : i <= k
             tag == j.obj[first][2]
         IN  IF tags = {} THEN Err("missing field")
             ELSE IF ~IsJStr(tag) THEN Err("invalid type")
             ELSE IF tag.str \notin V2Variants THEN Err("unknown variant")
             ELSE IF Cardinality(tags) > 1 THEN Err("duplicate field")
             ELSE VisitMap("SigstoreVerificationInputV2", tag.str,
                           SelectSeq(j.obj, LAMBDA m : m[1] # "type"))
    ELSE IF IsJArr(j)
    THEN IF Len(j.arr) = 0 THEN Err("missing field")
         ELSE IF ~IsJStr(j.arr[1]) THEN Err("invalid type")
         ELSE IF j.arr[1].str \notin V2Variants THEN Err("unknown variant")
         ELSE LET r == VisitSeq("SigstoreVerificationInputV2", j.arr[1].str,
                                Tail(j.arr))
              IN  IF IsOk(r)
                     /\ Len(j.arr) - 1 > Len(FieldOrder(j.arr[1].str))
                  THEN Err("invalid length")
                  ELSE r
    ELSE Err("invalid type")

(***************************************************************************)
(* Untrusted payloads: the encodings of a few requests, damaged in the     *)
(* ways a decoder has to reject or tolerate, one fault or two at a time.   *)
(***************************************************************************)
SampleAnnotations == {None, Some(EmptyMap)}
SampleImage == "reg/app:latest"

SampleV1 ==
    {PubKeyVerify("SigstoreVerificationInputV1", SampleImage, p, a) :
        p \in VecsUpTo(PemKeys, 1), a \in SampleAnnotations}
    \cup
    {KeylessVerify("SigstoreVerificationInputV1", SampleImage, k, a) :
        k \in VecsUpTo(KeylessInfo, 1), a \in SampleAnnotations}

SampleV2 ==
    {PubKeyVerify("SigstoreVerificationInputV2", SampleImage, p, a) :
        p \in VecsUpTo(PemKeys, 1), a \in SampleAnnotations}
    \cup
    {KeylessVerify("SigstoreVerificationInputV2", SampleImage, k, a) :
        k \in VecsUpTo(KeylessInfo, 1), a \in SampleAnnotations}
    \cup
    {KeylessPrefixVerify("SigstoreVerificationInputV2", SampleImage, k, a) :
        k \in VecsUpTo(KeylessPrefixInfo, 1), a \in SampleAnnotations}
    \cup
    {GithubActionsVerify("SigstoreVerificationInputV2", SampleImage, o, r, a) :
        o \in {"octocat"}, r \in OptRepos, a \in SampleAnnotations}

\* the members s without the i-th, and with the i-th value of a wrong type
Drop(s, i) == [n \in 1..(Len(s) - 1) |-> IF n < i THEN s[n] ELSE s[n + 1]]
Mistype(s, i) == [s EXCEPT ![i] = <<s[i][1], JNum(0)>>]

\* s itself; s without one member; s with one value of the wrong type; s
\* with an unknown key, first or last; s with a member twice; s backwards;
\* s without one member and with another of the wrong type
Damaged(s) ==
    {s} \cup {Drop(s, i) : i \in DOMAIN s}
        \cup {Mistype(s, i) : i \in DOMAIN s}
        \cup {Append(s, <<"extra", JNull>>), << <<"extra", JNum(0)>> >> \o s}
        \cup {Append(s, s[i]) : i \in DOMAIN s}
        \cup {[i \in DOMAIN s |-> s[Len(s) + 1 - i]]}
        \cup UNION {{Mistype(Drop(s, i), k) : k \in 1..(Len(s) - 1)} :
                        i \in DOMAIN s}

\* the field values of members s by position, and what a sender may cut,
\* add or mistype
Positional(s) == [i \in DOMAIN s |-> s[i][2]]
PositionalForms(s) ==
    {SubSeq(Positional(s), 1, n) : n \in 0..Len(s)}
        \cup {Append(Positional(s), JNull)}
        \cup {[Positional(s) EXCEPT ![i] = JNum(0)] : i \in DOMAIN s}
        \cup {Append([Positional(s) EXCEPT ![i] = JNum(0)], JNull) :
                 i \in DOMAIN s}

NotAnEnum ==
    {JNull, JNum(0), JStr("SigstorePubKeyVerify"), JStr("Unknown"),
     JObj(<<>>), JArr(<<>>), JArr(<<JNum(0)>>), JArr(<<JStr("Unknown")>>)}

\* the tags a payload may carry: every variant, a canonical-only variant
\* and a name no enum has
Tags == CanonicalVariants \cup {"Unknown"}

UntrustedV1 ==
    NotAnEnum \cup UNION {
        {JObj(<< <<t, JObj(m)>> >>) : m \in Damaged(s)}
        \cup {JObj(<< <<t, JArr(p)>> >>) : p \in PositionalForms(s)}
        \cup {JObj(<< <<t, JNull>> >>),
              JObj(<< <<t, JObj(s)>>, <<"Unknown", JNull>> >>),
              JObj(<< <<"Unknown", JNull>>, <<t, JObj(s)>> >>),
              JObj(<< <<t, JObj(Drop(s, 1))>>, <<"Unknown", JNull>> >>),
              JObj(<< <<"type", JStr(t)>> >> \o s)}
        : t \in Tags \ {"OciManifestDigest"},
          s \in UNION {SerStruct(x) : x \in SampleV1}}

UntrustedV2 ==
    NotAnEnum \cup UNION {
        {JObj(m) : m \in Damaged(<< <<"type", JStr(t)>> >> \o s)}
        \cup {JArr(<<JStr(t)>> \o p) : p \in PositionalForms(s)}
        \cup {JObj(<< <<t, JObj(s)>> >>)}
        : t \in Tags \ {"OciManifestDigest"},
          s \in UNION {SerStruct(x) : x \in SampleV2}}

(***************************************************************************)
(* One host call.                                                          *)
(***************************************************************************)
Init ==
    /\ pc = "idle"
    /\ version = "none"
    /\ request = Nothing
    /\ payload = Nothing
    /\ decoded = Nothing
    /\ canonical = Nothing

\* a guest built against the V1 schema builds a request and serializes it
GuestCallV1 ==
    /\ pc = "idle"
    /\ \E v \in SigstoreVerificationInputV1 :
          /\ request' = v
          /\ payload' \in SerializeV1(v)
    /\ version' = "V1"
    /\ pc' = "sent"
    /\ UNCHANGED <<decoded, canonical>>

\* a guest built against the V2 schema builds a request and serializes it
GuestCallV2 ==
    /\ pc = "idle"
    /\ \E v \in SigstoreVerificationInputV2 :
          /\ request' = v
          /\ payload' \in SerializeV2(v)
    /\ version' = "V2"
    /\ pc' = "sent"
    /\ UNCHANGED <<decoded, canonical>>

\* a payload of unknown origin arrives under the V1 version tag
UntrustedCallV1 ==
    /\ pc = "idle"
    /\ payload' \in UntrustedV1
    /\ version' = "V1"
    /\ pc' = "sent"
    /\ UNCHANGED <<request, decoded, canonical>>

\* a payload of unknown origin arrives under the V2 version tag
UntrustedCallV2 ==
    /\ pc = "idle"
    /\ payload' \in UntrustedV2
    /\ version' = "V2"
    /\ pc' = "sent"
    /\ UNCHANGED <<request, decoded, canonical>>

\* the host decodes the payload into SigstoreVerificationInputV1
HostDecodeV1 ==
    /\ pc = "sent"
    /\ version = "V1"
    /\ decoded' = DecodeBoundary(DeserializeV1(payload))
    /\ pc' = IF IsOk(decoded') THEN "decoded" ELSE "failed"
    /\ UNCHANGED <<version, request, payload, canonical>>

\* the host decodes the payload into SigstoreVerificationInputV2
HostDecodeV2 ==
    /\ pc = "sent"
    /\ version = "V2"
    /\ decoded' = DecodeBoundary(DeserializeV2(payload))
    /\ pc' = IF IsOk(decoded') THEN "decoded" ELSE "failed"
    /\ UNCHANGED <<version, request, payload, canonical>>

\* the host converts the decoded V1 request: v1.into()
HostConvertV1 ==
    /\ pc = "decoded"
    /\ version = "V1"
    /\ canonical' = into(decoded.ok)
    /\ pc' = "converted"
    /\ UNCHANGED <<version, request, payload, decoded>>

\* the host converts the decoded V2 request: CallbackRequestType::from(v2)
HostConvertV2 ==
    /\ pc = "decoded"
    /\ version = "V2"
    /\ canonical' = from(decoded.ok)
    /\ pc' = "converted"
    /\ UNCHANGED <<version, request, payload, decoded>>

\* a canonical request built directly, with no versioned request behind it
CanonicalCall ==
    /\ pc = "idle"
    /\ canonical' \in CanonicalOnly
    /\ pc' = "converted"
    /\ UNCHANGED <<version, request, payload, decoded>>

\* the canonical value is handed over and the call's values are dropped
Dispatch ==
    /\ pc = "converted"
    /\ pc' = "idle"
    /\ version' = "none"
    /\ request' = Nothing
    /\ payload' = Nothing
    /\ decoded' = Nothing
    /\ canonical' = Nothing

\* a MalformedRequest ends the call
Reject ==
    /\ pc = "failed"
    /\ pc' = "idle"
    /\ version' = "none"
    /\ request' = Nothing
    /\ payload' = Nothing
    /\ decoded' = Nothing
    /\ canonical' = Nothing

Next ==
    \/ GuestCallV1
    \/ GuestCallV2
    \/ UntrustedCallV1
    \/ UntrustedCallV2
    \/ HostDecodeV1
    \/ HostDecodeV2
    \/ HostConvertV1
    \/ HostConvertV2
    \/ CanonicalCall
    \/ Dispatch
    \/ Reject

Spec == Init /\ [][Next]_vars

\* a guest's own request survives the wire unchanged
RoundTrip ==
    (pc = "decoded" /\ request # Nothing) => decoded = Ok(request)

(***************************************************************************)
(* Properties.                                                             *)
(***************************************************************************)
\* the converter has run on a decoded request of the given version
Converted(ver) == pc = "converted" /\ version = ver

\* a value of one versioned enum written as the same variant of the other
AsV1(v) == [v EXCEPT !.enum = "SigstoreVerificationInputV1"]
AsV2(v) == [v EXCEPT !.enum = "SigstoreVerificationInputV2"]

\* the canonical value has the variant of the name of v and, field by field,
\* the values of v: the same field names, and under each the same value
SameVariantAndFields(c, v, schema) ==
    /\ c.enum = "CallbackRequestType"
    /\ c.variant = v.variant
    /\ DOMAIN Fields(c) = DOMAIN schema[v.variant]
    /\ DOMAIN Fields(v) = DOMAIN schema[v.variant]
    /\ \A f \in DOMAIN schema[v.variant] : c[f] = v[f]

\* C1: converting any SigstoreVerificationInputV2 value yields the canonical
\* variant of the same name with every field (image, the pub_keys / keyless /
\* keyless_prefix sequence, owner, repo, annotations) equal to the
\* original's; nothing is dropped, truncated or defaulted.
C1_V2FieldsPreserved ==
    Converted("V2") => SameVariantAndFields(canonical, decoded.ok, V2Fields)

\* the scenario of C1: GithubActionsVerify of octocat with no repo and one
\* annotation, converted
C1_Witness ==
    /\ Converted("V2")
    /\ decoded.ok = GithubActionsVerify("SigstoreVerificationInputV2",
                        "reg/app:latest", "octocat", None,
                        Some(HashMap([env |-> "prod"])))
    /\ canonical.variant = "SigstoreGithubActionsVerify"
    /\ canonical.owner = "octocat"
    /\ canonical.repo = None
    /\ canonical.annotations = Some(HashMap([env |-> "prod"]))

\* C2: converting any SigstoreVerificationInputV1 value yields the canonical
\* variant of the same name with the same image, the same pub_keys / keyless
\* sequence (length, elements, order) and the same annotations.
C2_V1FieldsPreserved ==
    Converted("V1") =>
        /\ SameVariantAndFields(canonical, decoded.ok, V1Fields)
        /\ canonical.image = decoded.ok.image
        /\ canonical.annotations = decoded.ok.annotations
        /\ decoded.ok.variant = "SigstorePubKeyVerify" =>
              /\ Len(canonical.pub_keys.vec) = Len(decoded.ok.pub_keys.vec)
              /\ \A i \in 1..Len(decoded.ok.pub_keys.vec) :
                    canonical.pub_keys.vec[i] = decoded.ok.pub_keys.vec[i]
        /\ decoded.ok.variant = "SigstoreKeylessVerify" =>
              /\ Len(canonical.keyless.vec) = Len(decoded.ok.keyless.vec)
              /\ \A i \in 1..Len(decoded.ok.keyless.vec) :
                    canonical.keyless.vec[i] = decoded.ok.keyless.vec[i]

\* the scenario of C2: PubKeyVerify with two keys and no annotations,
\* converted
C2_Witness ==
    /\ Converted("V1")
    /\ decoded.ok = PubKeyVerify("SigstoreVerificationInputV1",
                        "reg/busybox:1.0.0", Vec(<<"PEM1", "PEM2">>), None)
    /\ canonical.pub_keys = Vec(<<"PEM1", "PEM2">>)
    /\ canonical.annotations = None

\* C3: both converters are total and infallible: every decoded V1 or V2
\* request can be converted, and the conversion yields one
\* CallbackRequestType value, never an error or no result, also for empty
\* sequences, empty strings and absent or empty annotations.
C3_ConvertersTotal ==
    /\ pc = "decoded" => ENABLED (HostConvertV1 \/ HostConvertV2)
    /\ (Converted("V1") \/ Converted("V2")) =>
            /\ canonical \in CallbackRequestType
            /\ ~IsErr(canonical)
            /\ ~IsMalformedRequest(canonical)
            /\ canonical # Nothing

\* a V1 request with no keys and an empty annotation set, converted
C3_Witness ==
    /\ Converted("V1")
    /\ decoded.ok.variant = "SigstorePubKeyVerify"
    /\ decoded.ok.pub_keys = Vec(<<>>)
    /\ decoded.ok.annotations = Some(EmptyMap)
    /\ canonical \in CallbackRequestType
    /\ canonical.pub_keys = Vec(<<>>)

\* C4: every variant name of V1 is a variant name of V2 with the same field
\* names, types and optionality, so every V1 value is, field for field, a
\* V2 value; the variants V2 adds are SigstoreKeylessPrefixVerify and
\* SigstoreGithubActionsVerify and nothing else changes.
C4_SupersetMonotonicity ==
    /\ V1Variants \subseteq V2Variants
    /\ \A n \in V1Variants : V2Fields[n] = V1Fields[n]
    /\ V2Variants \ V1Variants =
          {"SigstoreKeylessPrefixVerify", "SigstoreGithubActionsVerify"}
    /\ (pc = "decoded" /\ version = "V1") =>
          /\ decoded.ok \in SigstoreVerificationInputV1
          /\ AsV2(decoded.ok) \in SigstoreVerificationInputV2
          /\ DOMAIN Fields(decoded.ok) = DOMAIN V2Fields[decoded.ok.variant]
          /\ \A p \in SerializeV2(AsV2(decoded.ok)) :
                DeserializeV2(p) = Ok(AsV2(decoded.ok))

\* a V1 keyless request, decoded
C4_Witness ==
    /\ pc = "decoded"
    /\ version = "V1"
    /\ decoded.ok.variant = "SigstoreKeylessVerify"
    /\ Len(decoded.ok.keyless.vec) = 2

\* C5: neither versioned enum has a DNS-lookup variant, no payload decodes
\* to one under V1 or V2, and no conversion yields DNSLookupHost: a
\* canonical DNSLookupHost is always one built directly.
C5_DnsAsymmetry ==
    /\ "DNSLookupHost" \notin V1Variants \cup V2Variants
    /\ (pc \in {"decoded", "converted"} /\ version # "none") =>
          decoded.ok.variant # "DNSLookupHost"
    /\ (Converted("V1") \/ Converted("V2")) =>
          canonical.variant # "DNSLookupHost"
    /\ (pc = "converted" /\ canonical.variant = "DNSLookupHost") =>
          version = "none" /\ decoded = Nothing /\ payload = Nothing

\* a V2 GitHub Actions request, converted
C5_Witness ==
    /\ Converted("V2")
    /\ decoded.ok.variant = "SigstoreGithubActionsVerify"
    /\ decoded.ok.owner = "octocat"
    /\ canonical.variant = "SigstoreGithubActionsVerify"

(***************************************************************************)
(* What a payload offers, read off the payload alone.                      *)
(***************************************************************************)
VariantsOf(ver) == IF ver = "V1" THEN V1Variants ELSE V2Variants
EnumOf(ver) ==
    IF ver = "V1" THEN "SigstoreVerificationInputV1"
    ELSE "SigstoreVerificationInputV2"

\* the variant tag the payload carries under the version's tagging
\* convention, if it carries one
TagOf(ver, j) ==
    IF ver = "V1"
    THEN IF IsJObj(j) /\ Len(j.obj) = 1
         THEN Some(j.obj[1][1])
         ELSE None
    ELSE IF /\ IsJObj(j)
            /\ Cardinality({i \in DOMAIN j.obj : j.obj[i][1] = "type"}) = 1
            /\ IsJStr(LastOf(j.obj, "type"))
         THEN Some(LastOf(j.obj, "type").str)
         ELSE IF IsJArr(j) /\ Len(j.arr) > 0 /\ IsJStr(j.arr[1])
         THEN Some(j.arr[1].str)
         ELSE None

\* what the payload holds for field f of the variant: in a map the value
\* of the first member with that key, in a sequence the value at the
\* field's position
Offered(ver, j, variant, f) ==
    LET content ==
            IF ver = "V1" THEN j.obj[1][2]
            ELSE IF IsJObj(j)
            THEN JObj(SelectSeq(j.obj, LAMBDA m : m[1] # "type"))
            ELSE JArr(Tail(j.arr))
        order == FieldOrder(variant)
        i == CHOOSE i \in DOMAIN order : order[i] = f
        at == {n \in DOMAIN content.obj : content.obj[n][1] = f}
    IN  IF IsJObj(content)
        THEN IF at # {}
             THEN Some(content.obj[CHOOSE n \in at : \A k \in at : n <= k][2])
             ELSE None
        ELSE IF IsJArr(content) /\ i <= Len(content.arr)
        THEN Some(content.arr[i])
        ELSE None

RequiredNames == {"image", "pub_keys", "keyless", "keyless_prefix", "owner"}

\* the payload value j is the encoding of the Rust value x of a required
\* field f
Encodes(f, j, x) ==
    IF f \in {"image", "owner"} THEN j = JStr(x)
    ELSE /\ IsJArr(j)
         /\ Len(j.arr) = Len(x.vec)
         /\ \A i \in 1..Len(x.vec) :
               j.arr[i] = IF f = "pub_keys" THEN JStr(x.vec[i])
                          ELSE JDescriptor(x.vec[i])

\* the payload value j has the type of required field f
WellTyped(f, j) ==
    CASE f \in {"image", "owner"} -> IsJStr(j)
      [] f = "pub_keys" -> IsJArr(j) /\ \A i \in DOMAIN j.arr : IsJStr(j.arr[i])
      [] f = "keyless" ->
            IsJArr(j) /\ \A i \in DOMAIN j.arr :
                            IsJDescriptor(j.arr[i], KeylessInfo)
      [] f = "keyless_prefix" ->
            IsJArr(j) /\ \A i \in DOMAIN j.arr :
                            IsJDescriptor(j.arr[i], KeylessPrefixInfo)

\* the tag is unrecognized, or a required field is missing or mistyped
Malformed(ver, j) ==
    LET tag == TagOf(ver, j)
    IN  \/ IsNone(tag)
        \/ tag.some \notin VariantsOf(ver)
        \/ \E f \in RequiredNames \cap DOMAIN FieldsOf(EnumOf(ver))[tag.some] :
              LET o == Offered(ver, j, tag.some, f)
              IN  IsNone(o) \/ ~WellTyped(f, o.some)

\* the values of the versioned enum
ValuesOf(ver) ==
    IF ver = "V1" THEN SigstoreVerificationInputV1
    ELSE SigstoreVerificationInputV2

\* C6: a decode into V1 or V2 ends in a value or in a MalformedRequest
\* error, and in nothing else; a payload whose tag is unrecognized or whose
\* required field (image, pub_keys, keyless, keyless_prefix, owner) is
\* missing or mistyped ends in the MalformedRequest; a decoded value is a
\* complete value of the enum (every declared field, each of its type)
\* whose required fields are the ones the payload gave.
C6_DecodeAllOrNothing ==
    pc \in {"decoded", "failed"} =>
        /\ IsOk(decoded) \/ IsMalformedRequest(decoded)
        /\ pc = "failed" <=> IsMalformedRequest(decoded)
        /\ Malformed(version, payload) => IsMalformedRequest(decoded)
        /\ IsOk(decoded) =>
              /\ decoded.ok.variant = TagOf(version, payload).some
              /\ decoded.ok \in ValuesOf(version)
              /\ DOMAIN Fields(decoded.ok)
                    = DOMAIN FieldsOf(EnumOf(version))[decoded.ok.variant]
              /\ decoded.ok.variant \in VariantsOf(version)
              /\ \A f \in RequiredNames \cap DOMAIN Fields(decoded.ok) :
                    LET o == Offered(version, payload, decoded.ok.variant, f)
                    IN  IsSome(o) /\ Encodes(f, o.some, decoded.ok[f])

\* a V2 GitHub Actions payload without its owner, refused
C6_Witness ==
    /\ pc = "failed"
    /\ version = "V2"
    /\ IsJObj(payload)
    /\ TagOf("V2", payload) = Some("SigstoreGithubActionsVerify")
    /\ Keys(payload.obj) = {"type", "image", "repo", "annotations"}
    /\ Len(payload.obj) = 4
    /\ decoded = MalformedRequest("missing field")

\* the converter of the version, applied to a value of that version
Convert(ver, v) == IF ver = "V1" THEN into(v) ELSE from(v)

\* v with an absent annotation constraint swapped for an empty annotation
\* set and the other way round
AnnotationTwin(v) ==
    [v EXCEPT !.annotations = IF v.annotations = None THEN Some(EmptyMap)
                              ELSE None]

\* C7: through either converter an absent annotation constraint stays
\* absent and an empty annotation set stays present and empty, so two
\* requests that differ only in that convert to different canonical values;
\* an absent repo stays absent and is not the empty string.
C7_AbsentIsNotEmpty ==
    (Converted("V1") \/ Converted("V2")) =>
        /\ decoded.ok.annotations = None =>
              /\ canonical.annotations = None
              /\ Convert(version, AnnotationTwin(decoded.ok)).annotations
                    = Some(EmptyMap)
              /\ Convert(version, AnnotationTwin(decoded.ok)) # canonical
        /\ decoded.ok.annotations = Some(EmptyMap) =>
              /\ canonical.annotations = Some(EmptyMap)
              /\ Convert(version, AnnotationTwin(decoded.ok)).annotations
                    = None
              /\ Convert(version, AnnotationTwin(decoded.ok)) # canonical
        /\ (decoded.ok.variant = "SigstoreGithubActionsVerify"
                /\ decoded.ok.repo = None) =>
              canonical.repo = None /\ canonical.repo # Some("")

\* a V1 request with an empty annotation set, converted
C7_Witness ==
    /\ Converted("V1")
    /\ decoded.ok.annotations = Some(EmptyMap)
    /\ canonical.annotations = Some(EmptyMap)
    /\ into(AnnotationTwin(decoded.ok)).annotations = None

\* j is a wrapper object whose single key is the variant name of v and whose
\* value is the struct of v's fields
IsExternallyTagged(j, v) ==
    /\ IsJObj(j)
    /\ Len(j.obj) = 1
    /\ j.obj[1][1] = v.variant
    /\ IsJObj(j.obj[1][2])
    /\ Keys(j.obj[1][2].obj) = DOMAIN Fields(v)
    /\ Len(j.obj[1][2].obj) = Cardinality(DOMAIN Fields(v))

\* j is one flat object of v's fields and a `type` key naming the variant
IsInternallyTagged(j, v) ==
    /\ IsJObj(j)
    /\ Keys(j.obj) = {"type"} \cup DOMAIN Fields(v)
    /\ Len(j.obj) = 1 + Cardinality(DOMAIN Fields(v))
    /\ LastOf(j.obj, "type") = JStr(v.variant)

\* C8: a V1 request and a canonical request are encoded externally tagged,
\* a V2 request internally tagged with a `type` key, so a request of a
\* shared variant has one encoding as V1 and another as V2.
C8_TaggingConvention ==
    /\ (pc = "sent" /\ request # Nothing /\ version = "V1") =>
          /\ IsExternallyTagged(payload, request)
          /\ ~IsInternallyTagged(payload, request)
          /\ payload \notin SerializeV2(AsV2(request))
    /\ (pc = "sent" /\ request # Nothing /\ version = "V2") =>
          /\ IsInternallyTagged(payload, request)
          /\ ~IsExternallyTagged(payload, request)
          /\ request.variant \in V1Variants =>
                payload \notin SerializeV1(AsV1(request))
    /\ pc = "converted" =>
          \A p \in SerializeCallbackRequestType(canonical) :
              IsExternallyTagged(p, canonical)
                  /\ ~IsInternallyTagged(p, canonical)

\* a V2 public-key request on the wire
C8_Witness ==
    /\ pc = "sent"
    /\ version = "V2"
    /\ request # Nothing
    /\ request.variant = "SigstorePubKeyVerify"
    /\ LastOf(payload.obj, "type") = JStr("SigstorePubKeyVerify")
    /\ "pub_keys" \in Keys(payload.obj)

\* C9: on SigstorePubKeyVerify and SigstoreKeylessVerify the two converters
\* agree: the V1 value and the V2 value of the same variant and fields
\* convert to the same canonical value.
C9_ConvertersAgree ==
    /\ Converted("V1") => canonical = from(AsV2(decoded.ok))
    /\ (Converted("V2") /\ decoded.ok.variant \in V1Variants) =>
          canonical = into(AsV1(decoded.ok))

\* a V2 public-key request with two different keys, converted
C9_Witness ==
    /\ Converted("V2")
    /\ decoded.ok.variant = "SigstorePubKeyVerify"
    /\ decoded.ok.pub_keys = Vec(<<"PEM2", "PEM1">>)
    /\ canonical = into(AsV1(decoded.ok))

\* C10: converting V1 values produces exactly the canonical variants
\* SigstorePubKeyVerify and SigstoreKeylessVerify, converting V2 values
\* exactly those two, SigstoreKeylessPrefixVerify and
\* SigstoreGithubActionsVerify, and the canonical variants no converter
\* produces are exactly OciManifestDigest and DNSLookupHost.
C10_ConverterImages ==
    LET imageV1 == {into(v).variant : v \in SampleV1}
        imageV2 == {from(v).variant : v \in SampleV2}
    IN  /\ Converted("V1") => canonical.variant \in imageV1
        /\ Converted("V2") => canonical.variant \in imageV2
        /\ imageV1 = {"SigstorePubKeyVerify", "SigstoreKeylessVerify"}
        /\ imageV2 = {"SigstorePubKeyVerify", "SigstoreKeylessVerify",
                      "SigstoreKeylessPrefixVerify",
                      "SigstoreGithubActionsVerify"}
        /\ CanonicalVariants \ (imageV1 \cup imageV2)
              = {"OciManifestDigest", "DNSLookupHost"}

\* a V2 keyless-prefix request, converted
C10_Witness ==
    /\ Converted("V2")
    /\ decoded.ok.variant = "SigstoreKeylessPrefixVerify"
    /\ canonical.variant = "SigstoreKeylessPrefixVerify"

=============================================================================
